---- MODULE Spec2Model ----
(***************************************************************************)
(* fast-indexer (lib/fast-indexer/src/main.rs): the batch pipeline of      *)
(* main (filters, duplicate-id guard, lookup maps, edges, output) and the  *)
(* task index of build_mcp_index (initial entries, inverse inference,      *)
(* deduplication, leaf, roots, ready, blocked).                            *)
(* The lookup-map loop with the parallel edge builder, and the inference   *)
(* phase, are also given step by step (SpecBarrier, SpecPhases).           *)
(*                                                                         *)
(* Option<T> is a set of at most one element; Vec<String> is a sequence;   *)
(* a HashMap is a function on its key set.  The iteration order of the     *)
(* entries HashMap is a permutation chosen by the action.                  *)
(*                                                                         *)
(* main.rs carries unresolved merge markers; the HEAD side is modelled     *)
(* (FileData and Node have soft_blocks), which is the side                 *)
(* build_mcp_index and the edge builder read.                              *)
(***************************************************************************)
EXTENDS Integers, Sequences, FiniteSets, TLC

VARIABLES
    args,        \* Args: filter_type, status, priority (Option<Vec>), format
    parsed,      \* the files vector as the parallel parse returned it
    files,       \* Vec<FileData> of main
    pc,          \* position of main
    id_map,      \* HashMap<String, String>: lookup key -> absolute path
    path_to_id,  \* HashMap<String, String>: absolute path -> id
    edges,       \* Vec<Edge> collected by the edge builder
    index,       \* Option<McpIndex>: the index build_mcp_index returned
    written,     \* output files written so far
    exit_code,   \* Option<i32>: the process exit status
    reinferred,  \* Option<entries>: the inference phase applied to index.tasks
    workers,     \* par_iter of the edge builder: file -> Option<local_edges>
    frame        \* Option<locals of build_mcp_index> while it runs step by step

vars == <<args, parsed, files, pc, id_map, path_to_id, edges, index, written,
          exit_code, reinferred, workers, frame>>

----------------------------------------------------------------------------
(* Bounds of the model *)

\* Frontmatter keys (beyond id) set over all documents of a run of the index.
MaxFields == 2
\* Frontmatter keys (beyond id) set over all documents of a run of main.
MaxPipeFields == 2
\* Frontmatter keys (beyond id) set over all documents of a sorting run.
MaxSortFields == 2
\* Frontmatter keys (beyond id) and body links over all documents of a
\* resolution run.
MaxRefFields == 2
\* Frontmatter keys (beyond id) set over all documents of a stepwise run of
\* the inference phase.
MaxPhaseFields == 2
\* Frontmatter keys (beyond id) and body links over all documents of a
\* filtered run.
MaxFilterFields == 4
\* Documents that declare a status in a run over status spellings.
MaxStatusFields == 2
\* Frontmatter keys (beyond id) and body links over all documents of a run
\* over relations declared from either side.
MaxEdgeFields == 2

----------------------------------------------------------------------------
(* Option and sequence helpers *)

None == {}
Some(x) == {x}
Unwrap(o) == CHOOSE x \in o : TRUE
UnwrapOr(o, d) == IF o = {} THEN d ELSE Unwrap(o)

Range(s) == {s[i] : i \in DOMAIN s}
Contains(s, x) == \E i \in DOMAIN s : s[i] = x

\* deduplicate_vec: keep the first occurrence of every item, in order.
RECURSIVE DedupFrom(_, _)
DedupFrom(s, seen) ==
    IF s = <<>> THEN <<>>
    ELSE IF Head(s) \in seen THEN DedupFrom(Tail(s), seen)
         ELSE <<Head(s)>> \o DedupFrom(Tail(s), seen \cup {Head(s)})

deduplicate_vec_keep(s) == s
deduplicate_vec(s) == DedupFrom(s, {})

\* All orders in which a HashMap with key set S can be iterated.
Perms(S) ==
    {p \in [1..Cardinality(S) -> S] : \A i, j \in DOMAIN p : i # j => p[i] # p[j]}

----------------------------------------------------------------------------
(* Documents and their frontmatter *)

Paths == <<"a.md", "b.md", "c.md">>
PathSet == Range(Paths)

\* file_stem of a scanned path
Stem(p) == CASE p = "a.md" -> "a" [] p = "b.md" -> "b" [] p = "c.md" -> "c"

\* compute_id: md5 of the path without its extension
compute_id(p) == CASE p = "a.md" -> "md5-a" [] p = "b.md" -> "md5-b" [] p = "c.md" -> "md5-c"

\* the alias table without its hyphenated spellings
resolve_status_alias_partial(s) ==
    CASE s = "inbox" -> "active"
      [] s = "todo" -> "active"
      [] s = "open" -> "active"
      [] s = "in_review" -> "review"
      [] s = "complete" -> "done"
      [] s = "completed" -> "done"
      [] s = "closed" -> "done"
      [] OTHER -> s

resolve_status_alias(s) ==
    CASE s = "inbox" -> "active"
      [] s = "todo" -> "active"
      [] s = "open" -> "active"
      [] s = "in-progress" -> "in_progress"
      [] s = "in_review" -> "review"
      [] s = "in-review" -> "review"
      [] s = "complete" -> "done"
      [] s = "completed" -> "done"
      [] s = "closed" -> "done"
      [] OTHER -> s

\* str::to_lowercase on the strings that occur
ToLower(s) ==
    CASE s = "A" -> "a" [] s = "B" -> "b" [] s = "C" -> "c"
      [] s = "Task" -> "task" [] s = "Active" -> "active" [] s = "Beta" -> "beta"
      [] OTHER -> s

\* serde_json as_i64 / as_bool on the YAML scalars used here
AsInt(v) ==
    CASE v = "0" -> 0 [] v = "1" -> 1 [] v = "2" -> 2 [] v = "3" -> 3
      [] v = "5" -> 5 [] v = "9" -> 9
AsBool(v) == (v = "true")

\* One frontmatter entry is [path, key, val]; fm is the sequence of all
\* entries of the run, ids is the frontmatter id of each path (an Option).
\* An entry with key "link" is a wiki or markdown link of the document body,
\* val being the target the regexes of lines 367-384 capture.
FmSeq(fm, p, key) ==
    LET s == SelectSeq(fm, LAMBDA e : e.path = p /\ e.key = key)
    IN  [i \in 1..Len(s) |-> s[i].val]
FmStr(fm, p, key) ==
    LET s == FmSeq(fm, p, key) IN IF s = <<>> THEN None ELSE Some(s[1])

\* parse_string_array_from_fm
parse_string_array_from_fm(fm, p, key) == FmSeq(fm, p, key)

\* parse_file: FileData of one document
parse_file(p, fid, fm) ==
    LET title  == FmStr(fm, p, "title")
        status == FmStr(fm, p, "status")
        prio   == FmStr(fm, p, "priority")
        ord    == FmStr(fm, p, "order")
        leaf   == FmStr(fm, p, "leaf")
        pl     == FmStr(fm, p, "permalink")
    IN  [ path            |-> p,
          permalinks      |-> <<ToLower(Stem(p))>>
                              \o (IF pl = None THEN <<>> ELSE <<ToLower(Unwrap(pl))>>)
                              \o (IF fid = None THEN <<>> ELSE <<ToLower(Unwrap(fid))>>),
          id              |-> UnwrapOr(fid, compute_id(p)),
          task_id         |-> fid,
          label           |-> UnwrapOr(title, Stem(p)),
          raw_links       |-> FmSeq(fm, p, "link"),
          project         |-> FmStr(fm, p, "project"),
          node_type       |-> FmStr(fm, p, "type"),
          status          |-> IF status = None THEN None
                              ELSE Some(resolve_status_alias(Unwrap(status))),
          priority        |-> IF prio = None THEN None ELSE Some(AsInt(Unwrap(prio))),
          order           |-> IF ord = None THEN 0 ELSE AsInt(Unwrap(ord)),
          parent          |-> FmStr(fm, p, "parent"),
          depends_on      |-> parse_string_array_from_fm(fm, p, "depends_on"),
          soft_depends_on |-> parse_string_array_from_fm(fm, p, "soft_depends_on"),
          children        |-> parse_string_array_from_fm(fm, p, "children"),
          blocks          |-> parse_string_array_from_fm(fm, p, "blocks"),
          soft_blocks     |-> parse_string_array_from_fm(fm, p, "soft_blocks"),
          leaf            |-> IF leaf = None THEN TRUE ELSE AsBool(Unwrap(leaf)) ]

\* The files vector of main after the parallel parse (step 2)
ParseAll(ids, fm) == [i \in DOMAIN Paths |-> parse_file(Paths[i], ids[Paths[i]], fm)]

----------------------------------------------------------------------------
(* build_mcp_index *)

\* The concatenation of the sequences of ss: a loop whose every round
\* pushes some items to one Vec.
Flatten(ss) ==
    LET r[i \in 0..Len(ss)] == IF i = 0 THEN <<>> ELSE r[i - 1] \o ss[i]
    IN  r[Len(ss)]

\* HashMap::contains_key
contains_key(entries, x) == x \in DOMAIN entries

\* for x in s { if entries.contains_key(x) { updates.push((x, tid)) } }
Pairs(entries, s, tid) ==
    LET t == SelectSeq(s, LAMBDA x : contains_key(entries, x))
    IN  [i \in 1..Len(t) |-> <<t[i], tid>>]

\* for (target, v) in updates { entries[target].push(v) }: what the loop
\* appends to the Vec of `target`.
Pushed(updates, target) ==
    LET t == SelectSeq(updates, LAMBDA u : u[1] = target)
    IN  [i \in 1..Len(t) |-> t[i][2]]

\* The entries HashMap after the loop over files (lines 618-648); a later
\* file with the same task id replaces an earlier one.
InitialEntries(fs) ==
    LET withId == {i \in DOMAIN fs : fs[i].task_id # None}
        tids   == {Unwrap(fs[i].task_id) : i \in withId}
        last(t) == CHOOSE i \in withId :
                      /\ fs[i].task_id = Some(t)
                      /\ \A j \in withId : fs[j].task_id = Some(t) => j <= i
    IN  [t \in tids |->
           LET f == fs[last(t)]
           IN  [ id              |-> t,
                 title           |-> f.label,
                 task_type       |-> UnwrapOr(f.node_type, "task"),
                 status          |-> UnwrapOr(f.status, "active"),
                 priority        |-> UnwrapOr(f.priority, 2),
                 order           |-> f.order,
                 parent          |-> f.parent,
                 children        |-> f.children,
                 depends_on      |-> f.depends_on,
                 blocks          |-> f.blocks,
                 soft_depends_on |-> f.soft_depends_on,
                 soft_blocks     |-> f.soft_blocks,
                 leaf            |-> f.leaf ]]

\* Lines 650-666: children as the inverse of parent, collected then applied.
ChildUpdates(entries, ord) ==
    Flatten([n \in DOMAIN ord |->
        IF entries[ord[n]].parent # None
           /\ contains_key(entries, Unwrap(entries[ord[n]].parent))
        THEN << <<Unwrap(entries[ord[n]].parent), ord[n]>> >> ELSE <<>>])

ApplyChildUpdates(entries, ord) ==
    LET ups == ChildUpdates(entries, ord)
    IN  [t \in DOMAIN entries |->
           [entries[t] EXCEPT !.children = @ \o Pushed(ups, t)]]

\* Lines 668-708: the five update vectors, read from the entries as they are
\* after the children pass.
parent_updates(entries, ord) ==
    Flatten([n \in DOMAIN ord |-> Pairs(entries, entries[ord[n]].children, ord[n])])
\* block_updates with the tuple pushed as (tid, dep_id)
block_updates_swapped(entries, ord) ==
    Flatten([n \in DOMAIN ord |->
        LET t == Pairs(entries, entries[ord[n]].depends_on, ord[n])
        IN  [i \in DOMAIN t |-> <<t[i][2], t[i][1]>>]])

block_updates(entries, ord) ==
    Flatten([n \in DOMAIN ord |-> Pairs(entries, entries[ord[n]].depends_on, ord[n])])
\* dep_updates with the tuple pushed as (tid, blocker_id)
dep_updates_swapped(entries, ord) ==
    Flatten([n \in DOMAIN ord |->
        LET t == Pairs(entries, entries[ord[n]].blocks, ord[n])
        IN  [i \in DOMAIN t |-> <<t[i][2], t[i][1]>>]])

dep_updates(entries, ord) ==
    Flatten([n \in DOMAIN ord |-> Pairs(entries, entries[ord[n]].blocks, ord[n])])
soft_block_updates(entries, ord) ==
    Flatten([n \in DOMAIN ord |-> Pairs(entries, entries[ord[n]].soft_depends_on, ord[n])])
soft_dep_updates(entries, ord) ==
    Flatten([n \in DOMAIN ord |-> Pairs(entries, entries[ord[n]].soft_blocks, ord[n])])

\* the parent update applied without the is_none test: the last update wins
ApplyParent_Overwrite(parent, ups) == IF ups = <<>> THEN parent ELSE Some(ups[Len(ups)])

\* Lines 711-718: the first update of a child whose parent is None sets it.
ApplyParent(parent, ups) == IF parent # None \/ ups = <<>> THEN parent ELSE Some(ups[1])

\* Lines 710-738: apply the updates.
ApplyUpdates(entries, ord) ==
    LET pu  == parent_updates(entries, ord)
        du  == dep_updates(entries, ord)
        bu  == block_updates(entries, ord)
        sdu == soft_dep_updates(entries, ord)
        sbu == soft_block_updates(entries, ord)
    IN  [t \in DOMAIN entries |->
           [entries[t] EXCEPT
              !.parent          = ApplyParent(@, Pushed(pu, t)),
              !.depends_on      = @ \o Pushed(du, t),
              !.blocks          = @ \o Pushed(bu, t),
              !.soft_depends_on = @ \o Pushed(sdu, t),
              !.soft_blocks     = @ \o Pushed(sbu, t)]]

\* leaf left as the document declared it
LeafDeclared(e) == e.leaf

\* Line 749
LeafOf(e) == (e.children = <<>>)

\* Lines 740-751: deduplicate and recompute leaf.
DedupAndLeaf(entries) ==
    [t \in DOMAIN entries |->
       LET e == [entries[t] EXCEPT
                   !.children        = deduplicate_vec(@),
                   !.blocks          = deduplicate_vec(@),
                   !.soft_blocks     = deduplicate_vec(@),
                   !.depends_on      = deduplicate_vec(@),
                   !.soft_depends_on = deduplicate_vec(@)]
       IN  [e EXCEPT !.leaf = LeafOf(e)]]

\* The inference phase, lines 650-751, with the HashMap iterated in order ord.
Infer(entries, ord) == DedupAndLeaf(ApplyUpdates(ApplyChildUpdates(entries, ord), ord))

----------------------------------------------------------------------------
(* Classification: roots, ready, blocked (lines 760-808) *)

completed_statuses == {"done", "cancelled"}

\* roots without the orphan case
IsRoot_NoOrphans(entries, e) == e.parent = None

\* Lines 762-770
IsRoot(entries, e) ==
    IF e.parent = None THEN TRUE ELSE ~contains_key(entries, Unwrap(e.parent))

Roots(entries, ord) == SelectSeq(ord, LAMBDA t : IsRoot(entries, entries[t]))

\* Lines 774-777
completed_ids(entries) == {t \in DOMAIN entries : entries[t].status \in completed_statuses}

\* unmet_deps that does not count a dependency of a node on itself
unmet_deps_ignore_self(entries, e) ==
    SelectSeq(e.depends_on, LAMBDA d : d \notin completed_ids(entries) /\ d # e.id)

\* unmet_deps that also counts soft dependencies
unmet_deps_with_soft(entries, e) ==
    SelectSeq(e.depends_on \o e.soft_depends_on, LAMBDA d : d \notin completed_ids(entries))

\* Lines 789-791
unmet_deps(entries, e) ==
    SelectSeq(e.depends_on, LAMBDA d : d \notin completed_ids(entries))

\* Lines 782-801: the branch taken for one entry
IsBlocked(entries, e) ==
    /\ e.status \notin completed_statuses
    /\ (unmet_deps(entries, e) # <<>> \/ e.status = "blocked")

\* the ready test as a second `if` instead of `else if`
IsReady_IfNotElse(entries, e) ==
    /\ e.status \notin completed_statuses
    /\ e.leaf /\ e.status = "active"
    /\ e.task_type # "learn"

\* the ready test without the exclusion of learn tasks
IsReady_WithLearn(entries, e) ==
    /\ e.status \notin completed_statuses
    /\ ~(unmet_deps(entries, e) # <<>> \/ e.status = "blocked")
    /\ e.leaf /\ e.status = "active"

IsReady(entries, e) ==
    /\ e.status \notin completed_statuses
    /\ ~(unmet_deps(entries, e) # <<>> \/ e.status = "blocked")
    /\ e.leaf /\ e.status = "active"
    /\ e.task_type # "learn"

Blocked(entries, ord) == SelectSeq(ord, LAMBDA t : IsBlocked(entries, entries[t]))
ReadyUnsorted(entries, ord) == SelectSeq(ord, LAMBDA t : IsReady(entries, entries[t]))

\* String order of the titles that occur (Ord for String is bytewise).
StrRank(s) ==
    CASE s = "a" -> 1 [] s = "b" -> 2 [] s = "c" -> 3 [] OTHER -> 4

\* the comparator with order compared before priority
KeyLeq_OrderFirst(ea, eb) ==
    \/ ea.order < eb.order
    \/ /\ ea.order = eb.order
       /\ \/ ea.priority < eb.priority
          \/ ea.priority = eb.priority /\ StrRank(ea.title) <= StrRank(eb.title)

\* (ea.priority, ea.order, &ea.title).cmp(..) = Less or Equal (line 807)
KeyLeq(ea, eb) ==
    \/ ea.priority < eb.priority
    \/ /\ ea.priority = eb.priority
       /\ \/ ea.order < eb.order
          \/ ea.order = eb.order /\ StrRank(ea.title) <= StrRank(eb.title)

\* Vec::sort_by is a stable sort: insert each id after the last one not greater.
RECURSIVE InsertSorted(_, _, _)
InsertSorted(entries, s, x) ==
    IF s = <<>> THEN <<x>>
    ELSE IF KeyLeq(entries[Head(s)], entries[x])
         THEN <<Head(s)>> \o InsertSorted(entries, Tail(s), x)
         ELSE <<x>> \o s

RECURSIVE SortReady(_, _)
SortReady(entries, s) ==
    IF s = <<>> THEN <<>>
    ELSE InsertSorted(entries, SortReady(entries, SubSeq(s, 1, Len(s) - 1)), s[Len(s)])

\* build_mcp_index (lines 616-819); by_project, version and generated are
\* not modelled.
build_mcp_index(fs, ord) ==
    LET entries == Infer(InitialEntries(fs), ord)
    IN  [ tasks   |-> entries,
          roots   |-> Roots(entries, ord),
          ready   |-> SortReady(entries, ReadyUnsorted(entries, ord)),
          blocked |-> Blocked(entries, ord) ]

----------------------------------------------------------------------------
(* main: filters, duplicate-id guard, lookup maps, edges, output *)

\* Lines 864-872: retain the files whose type is in the filter
FilterByType(fs, filter) ==
    IF filter = None THEN fs
    ELSE LET filter_set == {ToLower(t) : t \in Unwrap(filter)}
         IN  SelectSeq(fs, LAMBDA f :
                 IF f.node_type = None THEN FALSE
                 ELSE ToLower(Unwrap(f.node_type)) \in filter_set)

\* Lines 875-883
FilterByStatus(fs, filter) ==
    IF filter = None THEN fs
    ELSE LET filter_set == {ToLower(t) : t \in Unwrap(filter)}
         IN  SelectSeq(fs, LAMBDA f :
                 IF f.status = None THEN FALSE
                 ELSE ToLower(Unwrap(f.status)) \in filter_set)

\* Lines 886-894
FilterByPriority(fs, filter) ==
    IF filter = None THEN fs
    ELSE SelectSeq(fs, LAMBDA f :
             IF f.priority = None THEN FALSE
             ELSE Unwrap(f.priority) \in Unwrap(filter))

\* duplicate_count with `paths.len() > 2` for `paths.len() > 1`
duplicate_count_over_two(fs) ==
    Cardinality({fs[i].id : i \in {i \in DOMAIN fs :
                     \E j, k \in DOMAIN fs :
                         j # i /\ k # i /\ j # k /\ fs[j].id = fs[i].id /\ fs[k].id = fs[i].id}})

\* Lines 897-910: the number of ids that more than one file carries
duplicate_count(fs) ==
    Cardinality({fs[i].id : i \in {i \in DOMAIN fs :
                     \E j \in DOMAIN fs : j # i /\ fs[j].id = fs[i].id}})

\* Lines 919-931: the two lookup maps; a later insert replaces an earlier one
BuildIdMap(fs) ==
    LET keys == UNION {Range(fs[i].permalinks) : i \in DOMAIN fs}
        last(k) == CHOOSE i \in DOMAIN fs :
                      /\ Contains(fs[i].permalinks, k)
                      /\ \A j \in DOMAIN fs : Contains(fs[j].permalinks, k) => j <= i
    IN  [k \in keys |-> fs[last(k)].path]

BuildPathToId(fs) ==
    LET ps == {fs[i].path : i \in DOMAIN fs}
    IN  [p \in ps |-> (CHOOSE f \in Range(fs) : f.path = p).id]

\* The files of the scanned directory: the documents and one file that is
\* not a document
OnDisk == PathSet \cup {"notes.txt"}

\* Path::canonicalize on the paths that occur
Canonicalize(p) ==
    CASE p = "./a.md" -> "a.md" [] p = "./b.md" -> "b.md" [] p = "./c.md" -> "c.md"
      [] p = "./notes.txt" -> "notes.txt"
      [] OTHER -> p

\* current_dir.join(link): every scanned document is in the root directory
Joined(f, link) == link

\* Lines 437-468: resolve a body link to the path of its target
resolve_link(link, current_file, idm) ==
    IF link \in DOMAIN idm THEN Some(idm[link])
    ELSE IF ToLower(link) \in DOMAIN idm THEN Some(idm[ToLower(link)])
    ELSE IF Canonicalize(Joined(current_file, link)) \in OnDisk
         THEN Some(Canonicalize(Joined(current_file, link)))
         ELSE None

\* Lines 935-941: resolve a frontmatter reference to a target id
resolve_fm_ref(idm, p2i, ref_str) ==
    IF ToLower(ref_str) \in DOMAIN idm
    THEN (IF idm[ToLower(ref_str)] \in DOMAIN p2i
          THEN Some(p2i[idm[ToLower(ref_str)]]) ELSE None)
    ELSE None

\* One Edge
Edge(s, t, ty) == [source |-> s, target |-> t, edge_type |-> ty]

\* Forward edges f -> target of one relation Vec (lines 977-1000)
ForwardEdges(idm, p2i, f, refs, ty) ==
    Flatten([n \in DOMAIN refs |->
        LET t == resolve_fm_ref(idm, p2i, refs[n])
        IN  IF t # None /\ f.id # Unwrap(t) THEN <<Edge(f.id, Unwrap(t), ty)>> ELSE <<>>])

\* Inverse edges target -> f of one relation Vec (lines 1003-1042)
InverseEdges(idm, p2i, f, refs, ty) ==
    Flatten([n \in DOMAIN refs |->
        LET t == resolve_fm_ref(idm, p2i, refs[n])
        IN  IF t # None /\ f.id # Unwrap(t) THEN <<Edge(Unwrap(t), f.id, ty)>> ELSE <<>>])

\* Lines 949-961: the link edges of the body links of one file
LinkEdges(idm, p2i, f) ==
    Flatten([n \in DOMAIN f.raw_links |->
        LET target_path == resolve_link(f.raw_links[n], f, idm)
        IN  IF target_path # None /\ Unwrap(target_path) \in DOMAIN p2i
               /\ f.id # p2i[Unwrap(target_path)]
            THEN <<Edge(f.id, p2i[Unwrap(target_path)], "link")>> ELSE <<>>])

\* Lines 945-1058: the edges of one file
local_edges(idm, p2i, f) ==
    LinkEdges(idm, p2i, f)
    \o ForwardEdges(idm, p2i, f, IF f.parent = None THEN <<>> ELSE <<Unwrap(f.parent)>>, "parent")
    \o ForwardEdges(idm, p2i, f, f.depends_on, "depends_on")
    \o ForwardEdges(idm, p2i, f, f.soft_depends_on, "soft_depends_on")
    \o InverseEdges(idm, p2i, f, f.children, "parent")
    \o InverseEdges(idm, p2i, f, f.blocks, "depends_on")
    \o InverseEdges(idm, p2i, f, f.soft_blocks, "soft_depends_on")
    \o ForwardEdges(idm, p2i, f, IF f.project = None THEN <<>> ELSE <<Unwrap(f.project)>>, "link")

\* Lines 943-1059: par_iter().flat_map(..).collect() keeps the order of files
BuildEdgeVec(idm, p2i, fs) == Flatten([n \in DOMAIN fs |-> local_edges(idm, p2i, fs[n])])

\* Lines 1135-1140: the files written for a format other than mcp-index
GraphOutputs(format) ==
    CASE format = "json" -> {"graph.json"}
      [] format = "graphml" -> {"graph.graphml"}
      [] format = "dot" -> {"graph.dot"}
      [] OTHER -> {"graph.json", "graph.graphml", "graph.dot"}

FilterType ==
    /\ pc = "filter_type"
    /\ files' = FilterByType(files, args.filter_type)
    /\ pc' = "filter_status"
    /\ UNCHANGED <<args, parsed, id_map, path_to_id, edges, index, written, exit_code, reinferred,
                   workers, frame>>

FilterStatus ==
    /\ pc = "filter_status"
    /\ files' = FilterByStatus(files, args.status)
    /\ pc' = "filter_priority"
    /\ UNCHANGED <<args, parsed, id_map, path_to_id, edges, index, written, exit_code, reinferred,
                   workers, frame>>

FilterPriority ==
    /\ pc = "filter_priority"
    /\ files' = FilterByPriority(files, args.priority)
    /\ pc' = "detect_duplicates"
    /\ UNCHANGED <<args, parsed, id_map, path_to_id, edges, index, written, exit_code, reinferred,
                   workers, frame>>

\* The guard placed after the lookup maps are built
DetectDuplicatesAfterMaps ==
    /\ pc = "detect_duplicates"
    /\ id_map' = BuildIdMap(files)
    /\ path_to_id' = BuildPathToId(files)
    /\ IF duplicate_count(files) > 0
       THEN pc' = "exit" /\ exit_code' = Some(1)
       ELSE pc' = "build_maps" /\ exit_code' = exit_code
    /\ UNCHANGED <<args, parsed, files, edges, index, written, reinferred,
                   workers, frame>>

\* Lines 896-915: std::process::exit(1) when an id is repeated
DetectDuplicates ==
    /\ pc = "detect_duplicates"
    /\ IF duplicate_count(files) > 0
       THEN pc' = "exit" /\ exit_code' = Some(1)
       ELSE pc' = "build_maps" /\ exit_code' = exit_code
    /\ UNCHANGED <<args, parsed, files, id_map, path_to_id, edges, index, written, reinferred,
                   workers, frame>>

\* the lookup maps built from the files as parsed, before the filters
BuildLookupMaps_FromParsed ==
    /\ pc = "build_maps"
    /\ id_map' = BuildIdMap(parsed)
    /\ path_to_id' = BuildPathToId(parsed)
    /\ pc' = "build_edges"
    /\ UNCHANGED <<args, parsed, files, edges, index, written, exit_code, reinferred,
                   workers, frame>>

BuildLookupMaps ==
    /\ pc = "build_maps"
    /\ id_map' = BuildIdMap(files)
    /\ path_to_id' = BuildPathToId(files)
    /\ pc' = "build_edges"
    /\ UNCHANGED <<args, parsed, files, edges, index, written, exit_code, reinferred,
                   workers, frame>>

BuildEdges ==
    /\ pc = "build_edges"
    /\ edges' = BuildEdgeVec(id_map, path_to_id, files)
    /\ pc' = "output"
    /\ UNCHANGED <<args, parsed, files, id_map, path_to_id, index, written, exit_code, reinferred,
                   workers, frame>>

\* Lines 1076-1090: output_mcp_index, then return Ok(())
OutputMcpIndex ==
    /\ pc = "output"
    /\ ToLower(args.format) = "mcp-index"
    /\ \E ord \in Perms(DOMAIN InitialEntries(files)) :
          index' = Some(build_mcp_index(files, ord))
    /\ written' = written \cup {"graph.json"}
    /\ exit_code' = Some(0)
    /\ pc' = "done"
    /\ UNCHANGED <<args, parsed, files, id_map, path_to_id, edges, reinferred,
                   workers, frame>>

\* the graph written with the edges as collected
OutputGraph_NoDedup ==
    /\ pc = "output"
    /\ ToLower(args.format) # "mcp-index"
    /\ edges' = edges
    /\ written' = written \cup GraphOutputs(ToLower(args.format))
    /\ exit_code' = Some(0)
    /\ pc' = "done"
    /\ UNCHANGED <<args, parsed, files, id_map, path_to_id, index, reinferred,
                   workers, frame>>

\* Lines 1092-1179: the graph in the formats asked for
OutputGraph ==
    /\ pc = "output"
    /\ ToLower(args.format) # "mcp-index"
    /\ edges' = deduplicate_vec(edges)
    /\ written' = written \cup GraphOutputs(ToLower(args.format))
    /\ exit_code' = Some(0)
    /\ pc' = "done"
    /\ UNCHANGED <<args, parsed, files, id_map, path_to_id, index, reinferred,
                   workers, frame>>

----------------------------------------------------------------------------
(* The inputs of a run *)

\* Frontmatter key/value pairs a.md and b.md of the index runs may set
IndexKV ==
    << <<"status", "done">>, <<"status", "cancelled">>, <<"status", "blocked">>,
       <<"status", "in_progress">>,
       <<"type", "learn">>,
       <<"leaf", "false">>,
       <<"parent", "a">>, <<"parent", "b">>, <<"parent", "c">>, <<"parent", "ghost">>,
       <<"depends_on", "a">>, <<"depends_on", "b">>, <<"depends_on", "c">>,
       <<"depends_on", "ghost">>,
       <<"blocks", "a">>, <<"blocks", "b">>, <<"blocks", "c">>,
       <<"children", "a">>, <<"children", "b">>, <<"children", "c">>,
       <<"soft_depends_on", "a">>, <<"soft_depends_on", "b">>, <<"soft_depends_on", "c">>,
       <<"soft_blocks", "a">>, <<"soft_blocks", "b">>, <<"soft_blocks", "c">> >>

\* c.md of the index runs is a target of references: it may set its status
IndexTargetKV == << <<"status", "done">> >>

\* Frontmatter key/value pairs a document of the runs of main may set
PipeKV ==
    << <<"type", "task">>, <<"type", "project">>,
       <<"status", "todo">>, <<"priority", "1">>,
       <<"depends_on", "a">>, <<"parent", "A">> >>

ScalarKeys ==
    {"status", "type", "leaf", "parent", "priority", "order", "title", "permalink", "project"}

\* All frontmatter entries [path, key, val] the documents may set, where
\* kvs[i] are the key/value pairs of Paths[i]
FmUniverse(kvs) ==
    Flatten([i \in DOMAIN Paths |->
        [n \in DOMAIN kvs[i] |->
            [path |-> Paths[i], key |-> kvs[i][n][1], val |-> kvs[i][n][2]]]])

\* A frontmatter sets a scalar key at most once
ValidFm(fm) ==
    \A i, j \in DOMAIN fm :
        (i # j /\ fm[i].path = fm[j].path /\ fm[i].key = fm[j].key)
            => fm[i].key \notin ScalarKeys

\* The frontmatters with at most max entries drawn from the universe u
Frontmatters(u, max) ==
    LET picks == UNION {{s \in [1..k -> DOMAIN u] : \A i \in 1..(k - 1) : s[i] <= s[i + 1]}
                        : k \in 0..max}
    IN  {fm \in {[i \in DOMAIN s |-> u[s[i]]] : s \in picks} : ValidFm(fm)}

IndexFm == Frontmatters(FmUniverse(<<IndexKV, IndexKV, IndexTargetKV>>), MaxFields)
PipeFm == Frontmatters(FmUniverse(<<PipeKV, PipeKV, PipeKV>>), MaxPipeFields)

\* Every document of the index runs has a frontmatter id
IndexIds == [p \in PathSet |-> Some(Stem(p))]

\* Documents of the runs of main: with an id of their own, with none, or
\* with the id of a.md
PipeIds ==
    {[p \in PathSet |-> CASE p = "a.md" -> Some("a") [] p = "b.md" -> x [] p = "c.md" -> y]
        : x \in {None, Some("a"), Some("b")}, y \in {Some("a"), Some("c")}}

\* Command lines of the runs of main: at most one filter, either output path
PipeArgs ==
    {a \in [ filter_type : {None, Some({"Task"})},
             status      : {None, Some({"active"})},
             priority    : {None, Some({1})},
             format      : {"mcp-index", "all"} ] :
        Cardinality({k \in {"filter_type", "status", "priority"} : a[k] # None}) <= 1}

NoFilterArgs ==
    [filter_type |-> None, status |-> None, priority |-> None, format |-> "mcp-index"]

\* A run of main, from the parsed files on
Init ==
    /\ args \in PipeArgs
    /\ \E ids \in PipeIds, fm \in PipeFm :
          parsed = ParseAll(ids, fm)
    /\ files = parsed
    /\ pc = "filter_type"
    /\ id_map = <<>>
    /\ path_to_id = <<>>
    /\ edges = <<>>
    /\ index = None
    /\ written = {}
    /\ exit_code = None
    /\ reinferred = None
    /\ workers = <<>>
    /\ frame = None

Next ==
    \/ FilterType
    \/ FilterStatus
    \/ FilterPriority
    \/ DetectDuplicates
    \/ BuildLookupMaps
    \/ BuildEdges
    \/ OutputMcpIndex
    \/ OutputGraph

Spec == Init /\ [][Next]_vars

\* build_mcp_index applied to the files of an unfiltered run, and the
\* inference phase applied once more to the tasks it returned
InitIndex ==
    /\ args = NoFilterArgs
    /\ \E fm \in IndexFm : parsed = ParseAll(IndexIds, fm)
    /\ files = parsed
    /\ pc = "build_index"
    /\ id_map = <<>>
    /\ path_to_id = <<>>
    /\ edges = <<>>
    /\ index = None
    /\ written = {}
    /\ exit_code = None
    /\ reinferred = None
    /\ workers = <<>>
    /\ frame = None

BuildIndex ==
    /\ pc = "build_index"
    /\ \E ord \in Perms(DOMAIN InitialEntries(files)) :
          index' = Some(build_mcp_index(files, ord))
    /\ pc' = "built"
    /\ UNCHANGED <<args, parsed, files, id_map, path_to_id, edges, written, exit_code, reinferred,
                   workers, frame>>

ReInfer ==
    /\ pc = "built"
    /\ \E ord \in Perms(DOMAIN Unwrap(index).tasks) :
          reinferred' = Some(Infer(Unwrap(index).tasks, ord))
    /\ pc' = "reinferred"
    /\ UNCHANGED <<args, parsed, files, id_map, path_to_id, edges, index, written, exit_code,
                   workers, frame>>

NextIndex ==
    \/ BuildIndex
    \/ ReInfer

\* The index of every such run; the second application of the inference
\* phase is followed over the smaller inputs of SpecInverse and SpecSort
SpecIndex == InitIndex /\ [][BuildIndex]_vars

\* Frontmatter key/value pairs a document of the sorting runs may set
SortKV ==
    << <<"priority", "0">>, <<"priority", "1">>, <<"priority", "3">>,
       <<"order", "5">>, <<"order", "9">>,
       <<"title", "a">>, <<"title", "b">>, <<"title", "c">> >>

SortFm == Frontmatters(FmUniverse(<<SortKV, SortKV, SortKV>>), MaxSortFields)

\* build_mcp_index applied to documents that differ in priority, order and
\* title: every one of them is an active leaf task
InitSort ==
    /\ args = NoFilterArgs
    /\ \E fm \in SortFm : parsed = ParseAll(IndexIds, fm)
    /\ files = parsed
    /\ pc = "build_index"
    /\ id_map = <<>>
    /\ path_to_id = <<>>
    /\ edges = <<>>
    /\ index = None
    /\ written = {}
    /\ exit_code = None
    /\ reinferred = None
    /\ workers = <<>>
    /\ frame = None

SpecSort == InitSort /\ [][NextIndex]_vars

\* Body links and frontmatter references a.md and c.md of the resolution
\* runs may hold: by alias in either letter case, by relative path, to a
\* file that is no document, to nothing
RefKV ==
    << <<"link", "b">>, <<"link", "B">>, <<"link", "Beta">>, <<"link", "b.md">>,
       <<"link", "./b.md">>, <<"link", "notes.txt">>, <<"link", "ghost">>,
       <<"depends_on", "b">>, <<"depends_on", "B">>, <<"depends_on", "b.md">>,
       <<"depends_on", "ghost">>,
       <<"parent", "Beta">>, <<"parent", "./b.md">>,
       <<"project", "B">> >>

\* b.md of the resolution runs is the target: it may declare a permalink
RefTargetKV == << <<"permalink", "Beta">>, <<"link", "a">> >>

RefFm == Frontmatters(FmUniverse(<<RefKV, RefTargetKV, RefKV>>), MaxRefFields)

\* Command lines of the resolution runs: no filter, either output path
RefArgs ==
    {a \in PipeArgs : a.filter_type = None /\ a.status = None /\ a.priority = None}

\* A run of main over documents that refer to b.md
InitResolve ==
    /\ args \in RefArgs
    /\ \E ids \in PipeIds, fm \in RefFm : parsed = ParseAll(ids, fm)
    /\ files = parsed
    /\ pc = "filter_type"
    /\ id_map = <<>>
    /\ path_to_id = <<>>
    /\ edges = <<>>
    /\ index = None
    /\ written = {}
    /\ exit_code = None
    /\ reinferred = None
    /\ workers = <<>>
    /\ frame = None

SpecResolve == InitResolve /\ [][Next]_vars

----------------------------------------------------------------------------
(* Lines 917-1059 step by step: the loop that fills the lookup maps, then
   the closures of par_iter, one per file, in any order *)

\* The ids of a run that passed the duplicate-id guard
GuardedIds(fm) == {ids \in PipeIds : duplicate_count(ParseAll(ids, fm)) = 0}

\* main after the duplicate-id guard, before the first insert (line 919)
InitBarrier ==
    /\ args \in RefArgs
    /\ \E fm \in RefFm : \E ids \in GuardedIds(fm) : parsed = ParseAll(ids, fm)
    /\ files = parsed
    /\ pc = "build_maps"
    /\ id_map = <<>>
    /\ path_to_id = <<>>
    /\ edges = <<>>
    /\ index = None
    /\ written = {}
    /\ exit_code = None
    /\ reinferred = None
    /\ workers = [i \in DOMAIN files |-> None]
    /\ frame = None

\* The files whose keys the loop of line 923 has inserted
Inserted == Cardinality(DOMAIN path_to_id)

\* HashMap::insert of every (k, v) with k in ks: a present key is replaced
InsertAll(map, ks, v) ==
    [k \in DOMAIN map \cup ks |-> IF k \in ks THEN v ELSE map[k]]

\* Lines 923-931: one round of the loop over files
InsertKeys ==
    /\ pc = "build_maps"
    /\ LET f == files[Inserted + 1]
       IN  /\ path_to_id' = InsertAll(path_to_id, {f.path}, f.id)
           /\ id_map' = InsertAll(id_map, Range(f.permalinks), f.path)
    /\ pc' = IF Inserted + 1 = Len(files) THEN "build_edges" ELSE pc
    /\ UNCHANGED <<args, parsed, files, edges, index, written, exit_code, reinferred,
                   workers, frame>>

\* the closure of one file started while the loop over files still runs
ResolveFile_BeforeMapsComplete ==
    /\ pc \in {"build_maps", "build_edges"}
    /\ \E i \in DOMAIN files :
          /\ workers[i] = None
          /\ workers' = [workers EXCEPT ![i] = Some(local_edges(id_map, path_to_id, files[i]))]
    /\ UNCHANGED <<args, parsed, files, pc, id_map, path_to_id, edges, index, written,
                   exit_code, reinferred, frame>>

\* Lines 945-1058: the closure of flat_map for one file, on any thread
ResolveFile ==
    /\ pc = "build_edges"
    /\ \E i \in DOMAIN files :
          /\ workers[i] = None
          /\ workers' = [workers EXCEPT ![i] = Some(local_edges(id_map, path_to_id, files[i]))]
    /\ UNCHANGED <<args, parsed, files, pc, id_map, path_to_id, edges, index, written,
                   exit_code, reinferred, frame>>

\* Line 1059: collect() joins the local edges in the order of files
CollectEdges ==
    /\ pc = "build_edges"
    /\ \A i \in DOMAIN files : workers[i] # None
    /\ edges' = Flatten([i \in DOMAIN files |-> Unwrap(workers[i])])
    /\ pc' = "output"
    /\ UNCHANGED <<args, parsed, files, id_map, path_to_id, index, written, exit_code,
                   reinferred, workers, frame>>

NextBarrier ==
    \/ InsertKeys
    \/ ResolveFile
    \/ CollectEdges

SpecBarrier == InitBarrier /\ [][NextBarrier]_vars

----------------------------------------------------------------------------
(* Lines 650-751 step by step: the locals of build_mcp_index are the record
   of frame; every loop advances one round per step *)

\* Frontmatter key/value pairs a.md and b.md of the stepwise runs may set
PhaseKV ==
    << <<"parent", "a">>, <<"parent", "c">>,
       <<"children", "b">>, <<"children", "c">>,
       <<"depends_on", "a">>, <<"depends_on", "b">>, <<"depends_on", "c">>,
       <<"depends_on", "ghost">>,
       <<"blocks", "a">>, <<"blocks", "c">>,
       <<"soft_depends_on", "c">>, <<"soft_blocks", "c">> >>

PhaseTargetKV == << <<"parent", "a">>, <<"children", "a">> >>

PhaseFm == Frontmatters(FmUniverse(<<PhaseKV, PhaseKV, PhaseTargetKV>>), MaxPhaseFields)

Frame == Unwrap(frame)

\* build_mcp_index at line 651: entries filled, task_ids taken from the keys
InitPhases ==
    /\ args = NoFilterArgs
    /\ \E fm \in PhaseFm : parsed = ParseAll(IndexIds, fm)
    /\ files = parsed
    /\ pc = "infer"
    /\ id_map = <<>>
    /\ path_to_id = <<>>
    /\ edges = <<>>
    /\ index = None
    /\ written = {}
    /\ exit_code = None
    /\ reinferred = None
    /\ workers = <<>>
    /\ \E ord \in Perms(DOMAIN InitialEntries(files)) :
          frame = Some([ phase              |-> "collect_children",
                         entries            |-> InitialEntries(files),
                         pass_start         |-> InitialEntries(files),
                         task_ids           |-> ord,
                         pos                |-> 0,
                         child_updates      |-> <<>>,
                         parent_updates     |-> <<>>,
                         dep_updates        |-> <<>>,
                         block_updates      |-> <<>>,
                         soft_dep_updates   |-> <<>>,
                         soft_block_updates |-> <<>> ])

\* Lines 653-661: one round of the loop that collects child_updates
CollectChild ==
    /\ pc = "infer" /\ Frame.phase = "collect_children"
    /\ LET tid   == Frame.task_ids[Frame.pos + 1]
           entry == Frame.entries[tid]
           done  == Frame.pos + 1 = Len(Frame.task_ids)
       IN  frame' = Some([Frame EXCEPT
               !.child_updates =
                   IF entry.parent # None /\ contains_key(Frame.entries, Unwrap(entry.parent))
                   THEN Append(@, <<Unwrap(entry.parent), tid>>) ELSE @,
               !.pos = IF done THEN 0 ELSE @ + 1,
               !.phase = IF done THEN "apply_children" ELSE @])
    /\ UNCHANGED <<args, parsed, files, pc, id_map, path_to_id, edges, index, written,
                   exit_code, reinferred, workers>>

\* Lines 662-666: one round of the loop that applies child_updates; after
\* the last one the scan of lines 675-708 starts
ApplyChild ==
    /\ pc = "infer" /\ Frame.phase = "apply_children"
    /\ IF Frame.pos < Len(Frame.child_updates)
       THEN LET u == Frame.child_updates[Frame.pos + 1]
            IN  frame' = Some([Frame EXCEPT
                    !.entries[u[1]].children = Append(@, u[2]),
                    !.pos = @ + 1])
       ELSE frame' = Some([Frame EXCEPT
                    !.phase = "collect_sym", !.pos = 0, !.pass_start = Frame.entries])
    /\ UNCHANGED <<args, parsed, files, pc, id_map, path_to_id, edges, index, written,
                   exit_code, reinferred, workers>>

\* the scan of one node written straight to the targets, without the
\* update vectors
CollectSym_InPlace ==
    /\ pc = "infer" /\ Frame.phase = "collect_sym"
    /\ LET tid   == Frame.task_ids[Frame.pos + 1]
           e     == Frame.entries
           done  == Frame.pos + 1 = Len(Frame.task_ids)
       IN  frame' = Some([Frame EXCEPT
               !.entries = [t \in DOMAIN e |-> [e[t] EXCEPT
                   !.parent = ApplyParent(@, Pushed(Pairs(e, e[tid].children, tid), t)),
                   !.depends_on = @ \o Pushed(Pairs(e, e[tid].blocks, tid), t),
                   !.blocks = @ \o Pushed(Pairs(e, e[tid].depends_on, tid), t),
                   !.soft_depends_on = @ \o Pushed(Pairs(e, e[tid].soft_blocks, tid), t),
                   !.soft_blocks = @ \o Pushed(Pairs(e, e[tid].soft_depends_on, tid), t)]],
               !.pos = IF done THEN 0 ELSE @ + 1,
               !.phase = IF done THEN "apply_sym" ELSE @])
    /\ UNCHANGED <<args, parsed, files, pc, id_map, path_to_id, edges, index, written,
                   exit_code, reinferred, workers>>

\* Lines 675-708: one round of the loop that collects the five update vectors
CollectSym ==
    /\ pc = "infer" /\ Frame.phase = "collect_sym"
    /\ LET tid   == Frame.task_ids[Frame.pos + 1]
           e     == Frame.entries
           done  == Frame.pos + 1 = Len(Frame.task_ids)
       IN  frame' = Some([Frame EXCEPT
               !.parent_updates     = @ \o Pairs(e, e[tid].children, tid),
               !.block_updates      = @ \o Pairs(e, e[tid].depends_on, tid),
               !.dep_updates        = @ \o Pairs(e, e[tid].blocks, tid),
               !.soft_block_updates = @ \o Pairs(e, e[tid].soft_depends_on, tid),
               !.soft_dep_updates   = @ \o Pairs(e, e[tid].soft_blocks, tid),
               !.pos = IF done THEN 0 ELSE @ + 1,
               !.phase = IF done THEN "apply_sym" ELSE @])
    /\ UNCHANGED <<args, parsed, files, pc, id_map, path_to_id, edges, index, written,
                   exit_code, reinferred, workers>>

\* The tuples of one update vector with the field they are applied to
Tagged(ups, field) == [i \in DOMAIN ups |-> <<field, ups[i][1], ups[i][2]>>]

\* The five loops of lines 711-738 in the order of the code
SymUpdates(fr) ==
    Tagged(fr.parent_updates, "parent")
    \o Tagged(fr.dep_updates, "depends_on")
    \o Tagged(fr.block_updates, "blocks")
    \o Tagged(fr.soft_dep_updates, "soft_depends_on")
    \o Tagged(fr.soft_block_updates, "soft_blocks")

\* One round of one of the loops of lines 711-738
ApplyOne(entries, u) ==
    IF u[1] = "parent"
    THEN [entries EXCEPT ![u[2]].parent = IF @ = None THEN Some(u[3]) ELSE @]
    ELSE [entries EXCEPT ![u[2]][u[1]] = Append(@, u[3])]

\* Lines 710-738: one round of the loops that apply the update vectors
ApplySym ==
    /\ pc = "infer" /\ Frame.phase = "apply_sym"
    /\ IF Frame.pos < Len(SymUpdates(Frame))
       THEN frame' = Some([Frame EXCEPT
                !.entries = ApplyOne(@, SymUpdates(Frame)[Frame.pos + 1]),
                !.pos = @ + 1])
       ELSE frame' = Some([Frame EXCEPT !.phase = "dedup", !.pos = 0])
    /\ UNCHANGED <<args, parsed, files, pc, id_map, path_to_id, edges, index, written,
                   exit_code, reinferred, workers>>

\* Lines 741-751: deduplicate and recompute leaf
DedupStep ==
    /\ pc = "infer" /\ Frame.phase = "dedup"
    /\ frame' = Some([Frame EXCEPT !.entries = DedupAndLeaf(@), !.phase = "end"])
    /\ pc' = "inferred"
    /\ UNCHANGED <<args, parsed, files, id_map, path_to_id, edges, index, written,
                   exit_code, reinferred, workers>>

NextPhases ==
    \/ CollectChild
    \/ ApplyChild
    \/ CollectSym
    \/ ApplySym
    \/ DedupStep

SpecPhases == InitPhases /\ [][NextPhases]_vars

\* build_mcp_index in one step over the documents of the stepwise runs, and
\* the inference phase applied once more to the tasks it returned
InitInverse ==
    /\ args = NoFilterArgs
    /\ \E fm \in PhaseFm : parsed = ParseAll(IndexIds, fm)
    /\ files = parsed
    /\ pc = "build_index"
    /\ id_map = <<>>
    /\ path_to_id = <<>>
    /\ edges = <<>>
    /\ index = None
    /\ written = {}
    /\ exit_code = None
    /\ reinferred = None
    /\ workers = <<>>
    /\ frame = None

SpecInverse == InitInverse /\ [][NextIndex]_vars

----------------------------------------------------------------------------
(* Runs of main with a filter, over documents that refer to one another *)

\* a.md may have a type; b.md may have one and may refer to a.md and to
\* c.md; c.md may have a type and may name b.md as its child
FilterSourceKV == << <<"type", "task">> >>
FilterRefKV ==
    << <<"type", "task">>, <<"depends_on", "a">>, <<"depends_on", "c">>,
       <<"blocks", "c">>, <<"link", "c.md">> >>
FilterTargetKV == << <<"type", "task">>, <<"children", "b">> >>

FilterFm ==
    Frontmatters(FmUniverse(<<FilterSourceKV, FilterRefKV, FilterTargetKV>>), MaxFilterFields)

\* A run of main with any command line of PipeArgs
InitFilter ==
    /\ args \in PipeArgs
    /\ \E fm \in FilterFm : parsed = ParseAll(IndexIds, fm)
    /\ files = parsed
    /\ pc = "filter_type"
    /\ id_map = <<>>
    /\ path_to_id = <<>>
    /\ edges = <<>>
    /\ index = None
    /\ written = {}
    /\ exit_code = None
    /\ reinferred = None
    /\ workers = <<>>
    /\ frame = None

SpecFilter == InitFilter /\ [][Next]_vars

----------------------------------------------------------------------------
(* build_mcp_index over documents that declare their status in the legacy
   spellings of the alias table and in other spellings *)

StatusKV ==
    << <<"status", "inbox">>, <<"status", "todo">>, <<"status", "open">>,
       <<"status", "in-progress">>, <<"status", "in_review">>, <<"status", "in-review">>,
       <<"status", "complete">>, <<"status", "completed">>, <<"status", "closed">>,
       <<"status", "done">>, <<"status", "blocked">>, <<"status", "waiting">> >>

StatusFm == Frontmatters(FmUniverse(<<StatusKV, StatusKV, StatusKV>>), MaxStatusFields)

InitStatus ==
    /\ args = NoFilterArgs
    /\ \E fm \in StatusFm : parsed = ParseAll(IndexIds, fm)
    /\ files = parsed
    /\ pc = "build_index"
    /\ id_map = <<>>
    /\ path_to_id = <<>>
    /\ edges = <<>>
    /\ index = None
    /\ written = {}
    /\ exit_code = None
    /\ reinferred = None
    /\ workers = <<>>
    /\ frame = None

SpecStatus == InitStatus /\ [][NextIndex]_vars

\* Relations a.md may declare: forward to b.md (by id in either letter
\* case), to itself, to a document that does not exist, and a body link
EdgeChildKV ==
    << <<"parent", "b">>, <<"parent", "a">>,
       <<"depends_on", "b">>, <<"depends_on", "B">>, <<"depends_on", "a">>,
       <<"depends_on", "ghost">>,
       <<"soft_depends_on", "b">>,
       <<"children", "b">>,
       <<"link", "b">>, <<"project", "b">> >>

\* Relations b.md may declare: the inverse fields naming a.md, itself or a
\* document that does not exist
EdgeParentKV ==
    << <<"children", "a">>, <<"children", "b">>, <<"children", "ghost">>,
       <<"blocks", "a">>, <<"blocks", "b">>,
       <<"soft_blocks", "a">>,
       <<"parent", "a">> >>

\* Relations c.md may declare
EdgeOtherKV == << <<"blocks", "a">>, <<"depends_on", "b">> >>

EdgeFm == Frontmatters(FmUniverse(<<EdgeChildKV, EdgeParentKV, EdgeOtherKV>>), MaxEdgeFields)

\* A run of main without filters over documents with ids of their own
InitEdges ==
    /\ args \in RefArgs
    /\ \E fm \in EdgeFm : parsed = ParseAll(IndexIds, fm)
    /\ files = parsed
    /\ pc = "filter_type"
    /\ id_map = <<>>
    /\ path_to_id = <<>>
    /\ edges = <<>>
    /\ index = None
    /\ written = {}
    /\ exit_code = None
    /\ reinferred = None
    /\ workers = <<>>
    /\ frame = None

SpecEdges == InitEdges /\ [][Next]_vars

----------------------------------------------------------------------------
(* Properties of main *)

FilterPcs == {"filter_type", "filter_status", "filter_priority"}
RepeatedId(fs) == \E i, j \in DOMAIN fs : i # j /\ fs[i].id = fs[j].id

\* C1 as stated: a run in which any id is repeated among the input documents
\* (the parsed files, whatever filters are given) writes no output and does
\* not end with success.
C1_RepeatedInputIdFails ==
    RepeatedId(parsed) => (written = {} /\ index = None /\ exit_code # Some(0))

\* C1 amended: a run in which an id is repeated among the documents that
\* survive the type/status/priority filters writes no output and ends with
\* exit status 1 at the duplicate-id guard.
C1_RepeatedFilteredIdFails ==
    (pc \notin FilterPcs /\ RepeatedId(files)) =>
        /\ written = {} /\ index = None
        /\ \/ pc = "detect_duplicates" /\ exit_code = None
           \/ pc = "exit" /\ exit_code = Some(1)

C1_Witness ==
    /\ pc = "exit" /\ exit_code = Some(1) /\ written = {}
    /\ RepeatedId(files)
    /\ args.filter_type # None
    /\ Len(files) < Len(parsed)

\* C2: whenever the duplicate-id guard is reached or has failed, no lookup
\* map entry, edge, index or output file exists, and the failed run takes no
\* further step: nothing is built or written before a failing check.
C2_GuardPrecedesBuilding ==
    /\ (pc \in {"detect_duplicates", "exit"}) =>
          (id_map = <<>> /\ path_to_id = <<>> /\ edges = <<>> /\ index = None /\ written = {})
    /\ (exit_code = Some(1)) => (pc = "exit" /\ ~ENABLED Next)

C2_Witness ==
    /\ pc = "exit" /\ exit_code = Some(1)
    /\ id_map = <<>> /\ written = {}
    /\ Len(files) = Len(parsed)

----------------------------------------------------------------------------
(* Properties of build_mcp_index *)

Tasks == Unwrap(index).tasks
Deps(T, n) == Range(T[n].depends_on)
FileOf(t) == CHOOSE f \in Range(files) : f.task_id = Some(t)

\* C3: after inference, for all A and B in the index, B in A.depends_on
\* implies A in B.blocks, B in A.soft_depends_on implies A in B.soft_blocks,
\* and A.parent = B implies A in B.children.
C3_InverseSymmetry ==
    index # None =>
        \A A \in DOMAIN Tasks, B \in DOMAIN Tasks :
            /\ Contains(Tasks[A].depends_on, B) => Contains(Tasks[B].blocks, A)
            /\ Contains(Tasks[A].soft_depends_on, B) => Contains(Tasks[B].soft_blocks, A)
            /\ Tasks[A].parent = Some(B) => Contains(Tasks[B].children, A)

C3_Witness ==
    /\ index # None
    /\ \E A \in DOMAIN Tasks, B \in DOMAIN Tasks :
          /\ A # B
          /\ Contains(FileOf(A).depends_on, B) /\ FileOf(B).blocks = <<>>
          /\ Contains(Tasks[B].blocks, A)
          /\ FileOf(A).parent = Some(B) /\ FileOf(B).children = <<>>
          /\ Contains(Tasks[B].children, A)

\* C4: the inference phase applied to the tasks it produced returns the same
\* records: same ids, same parent, same leaf, and the same relation vectors
\* (nothing added, nothing removed), whatever the iteration orders.
C4_InferenceIdempotent ==
    reinferred # None => Unwrap(reinferred) = Tasks

C4_Witness ==
    /\ reinferred # None
    /\ \E A \in DOMAIN Tasks, B \in DOMAIN Tasks :
          /\ A # B
          /\ Contains(Tasks[A].depends_on, B) /\ Contains(Tasks[B].depends_on, A)

\* C5: after inference every record has leaf = (children is empty), whatever
\* leaf value the document declared.
C5_LeafConsistency ==
    index # None => \A t \in DOMAIN Tasks : Tasks[t].leaf = (Tasks[t].children = <<>>)

C5_Witness ==
    /\ index # None
    /\ \E t \in DOMAIN Tasks : FileOf(t).leaf = FALSE /\ Tasks[t].leaf = TRUE
    /\ \E t \in DOMAIN Tasks : FileOf(t).leaf = TRUE /\ Tasks[t].leaf = FALSE

\* C6: in every index the ready and blocked lists share no id and neither
\* holds a node whose status is done or cancelled.
C6_ReadyBlockedDisjoint ==
    index # None =>
        /\ Range(Unwrap(index).ready) \cap Range(Unwrap(index).blocked) = {}
        /\ \A t \in Range(Unwrap(index).ready) \cup Range(Unwrap(index).blocked) :
              Tasks[t].status \notin {"done", "cancelled"}

C6_Witness ==
    /\ index # None
    /\ Unwrap(index).ready # <<>>
    /\ Unwrap(index).blocked # <<>>
    /\ \E t \in DOMAIN Tasks : Tasks[t].status = "cancelled"

\* The classification of node n in an index
Class(idx, n) ==
    IF Contains(idx.ready, n) THEN "ready"
    ELSE IF Contains(idx.blocked, n) THEN "blocked" ELSE "neither"

\* The files of a second run that differs only in the status of document t
WithStatus(fs, t, st) ==
    [i \in DOMAIN fs |->
        IF fs[i].task_id = Some(t) THEN [fs[i] EXCEPT !.status = Some(st)] ELSE fs[i]]

\* The index of the second run (its lists as sets do not depend on the order)
SecondRun(fs) ==
    build_mcp_index(fs, CHOOSE ord \in Perms(DOMAIN InitialEntries(fs)) : TRUE)

\* The statuses on the other side of completed / non-completed
Toggled(st) ==
    IF st \in {"done", "cancelled"} THEN {"active", "in_progress", "blocked"}
    ELSE {"done", "cancelled"}

\* C7 as stated: for any N and any T in N.soft_depends_on, a second run that
\* differs only in T's status being completed or not gives N the same
\* classification.
C7_SoftTargetToggleNeutral ==
    pc = "built" =>
        \A N \in DOMAIN Tasks, T \in DOMAIN Tasks :
            Contains(Tasks[N].soft_depends_on, T) =>
                \A st \in Toggled(Tasks[T].status) :
                    Class(SecondRun(WithStatus(files, T, st)), N) = Class(Unwrap(index), N)

\* C7 amended: the same, for a target T that is not N itself and is not also
\* in N's depends_on after inference.
C7_PureSoftTargetToggleNeutral ==
    pc = "built" =>
        \A N \in DOMAIN Tasks, T \in DOMAIN Tasks :
            (Contains(Tasks[N].soft_depends_on, T) /\ T # N
                /\ ~Contains(Tasks[N].depends_on, T)) =>
                \A st \in Toggled(Tasks[T].status) :
                    Class(SecondRun(WithStatus(files, T, st)), N) = Class(Unwrap(index), N)

C7_Witness ==
    /\ pc = "built"
    /\ \E N \in DOMAIN Tasks, T \in DOMAIN Tasks :
          /\ N # T
          /\ Contains(FileOf(N).soft_depends_on, T)
          /\ ~Contains(Tasks[N].depends_on, T)
          /\ Tasks[T].status = "done"
          /\ Class(Unwrap(index), N) = "ready"
          /\ Class(SecondRun(WithStatus(files, T, "active")), N) = "ready"

\* C8: a non-completed node N is in blocked exactly when its status is
\* "blocked" or some id of its depends_on belongs to a node of the index
\* whose status is not done/cancelled; an id that belongs to no node does not
\* block.
C8_BlockedIffUnmetIndexedDependency ==
    index # None =>
        \A N \in DOMAIN Tasks :
            Tasks[N].status \notin {"done", "cancelled"} =>
                (Contains(Unwrap(index).blocked, N) <=>
                    \/ Tasks[N].status = "blocked"
                    \/ \E d \in Deps(Tasks, N) :
                          d \in DOMAIN Tasks /\ Tasks[d].status \notin {"done", "cancelled"})

\* C9: N is in ready exactly when N is not completed, N is not in blocked,
\* N.leaf holds, N.status is "active" and N's type is not "learn"; both lists
\* hold ids of the tasks map only, and every document with a task id stays in
\* the tasks map whichever list it is in.
C9_ReadyDefinition ==
    index # None =>
        /\ \A N \in DOMAIN Tasks :
              Contains(Unwrap(index).ready, N) <=>
                  /\ Tasks[N].status \notin {"done", "cancelled"}
                  /\ ~Contains(Unwrap(index).blocked, N)
                  /\ Tasks[N].leaf
                  /\ Tasks[N].status = "active"
                  /\ Tasks[N].task_type # "learn"
        /\ Range(Unwrap(index).ready) \cup Range(Unwrap(index).blocked) \subseteq DOMAIN Tasks
        /\ DOMAIN Tasks = {Unwrap(f.task_id) : f \in {g \in Range(files) : g.task_id # None}}

C9_Witness ==
    /\ index # None
    /\ \E N \in DOMAIN Tasks :
          /\ Tasks[N].task_type = "learn" /\ Tasks[N].status = "active" /\ Tasks[N].leaf
          /\ Class(Unwrap(index), N) = "neither"
    /\ \E N \in DOMAIN Tasks :
          /\ Tasks[N].status = "active" /\ ~Tasks[N].leaf
          /\ Class(Unwrap(index), N) = "neither"
    /\ \E N \in DOMAIN Tasks : Class(Unwrap(index), N) = "ready"

\* The nodes whose parent is absent or names no node of the index
ParentUnresolved(T) ==
    {N \in DOMAIN T : T[N].parent = None \/ Unwrap(T[N].parent) \notin DOMAIN T}

\* C10 as stated: roots holds exactly the non-completed nodes whose parent is
\* absent or names no node of the index.
C10_RootsAreNonCompletedParentless ==
    index # None =>
        Range(Unwrap(index).roots) =
            {N \in ParentUnresolved(Tasks) : Tasks[N].status \notin {"done", "cancelled"}}

\* C10 amended: roots holds exactly the nodes, completed or not, whose parent
\* (after inference) is absent or names no node of the index.
C10_RootsAreParentless ==
    index # None => Range(Unwrap(index).roots) = ParentUnresolved(Tasks)

C10_Witness ==
    /\ index # None
    /\ \E N \in Range(Unwrap(index).roots) : Tasks[N].status = "done"
    /\ \E N \in Range(Unwrap(index).roots) : Tasks[N].parent = Some("ghost")

----------------------------------------------------------------------------
(* Properties of the ready ordering *)

Ready == Unwrap(index).ready

\* (priority, order, title) of x is lexicographically at most that of y
TupleLeq(x, y) ==
    \/ x.priority < y.priority
    \/ x.priority = y.priority /\ x.order < y.order
    \/ x.priority = y.priority /\ x.order = y.order /\ StrRank(x.title) <= StrRank(y.title)

\* C11: for every two consecutive ids x, y of ready, (priority, order, title)
\* of x is lexicographically at most that of y; a lower priority value
\* precedes a higher one whatever the order values.
C11_ReadySortedByTuple ==
    index # None =>
        /\ \A i \in 1..(Len(Ready) - 1) : TupleLeq(Tasks[Ready[i]], Tasks[Ready[i + 1]])
        /\ \A i, j \in DOMAIN Ready :
              Tasks[Ready[i]].priority < Tasks[Ready[j]].priority => i < j

\* Y (priority 0, order 9) is followed by an X of higher priority value and
\* lower order, and two nodes of equal priority are ordered by order
C11_Witness ==
    /\ index # None
    /\ \E i \in 1..(Len(Ready) - 1) :
          /\ Tasks[Ready[i]].priority = 0 /\ Tasks[Ready[i]].order = 9
          /\ Tasks[Ready[i + 1]].priority > 0 /\ Tasks[Ready[i + 1]].order < 9
    /\ Len(Ready) = 3

\* C12: the sequence of ids in ready is determined by the input records:
\* every iteration order of the entries map gives the ready sequence this
\* run produced, also when two nodes have equal (priority, order, title).
C12_ReadySequenceDetermined ==
    index # None =>
        \A ord \in Perms(DOMAIN Tasks) : build_mcp_index(files, ord).ready = Ready

----------------------------------------------------------------------------
(* Properties of the inference phase *)

\* C13: if document D declares blocks: [Z], Z is in the index and Z declares
\* no dependency, then after inference Z.depends_on contains D's id; likewise
\* a declared soft_blocks entry adds D to Z.soft_depends_on.
C13_DeclaredBlocksPropagated ==
    index # None =>
        \A D \in DOMAIN Tasks, Z \in DOMAIN Tasks :
            /\ (Contains(FileOf(D).blocks, Z) /\ FileOf(Z).depends_on = <<>>)
                  => Contains(Tasks[Z].depends_on, D)
            /\ (Contains(FileOf(D).soft_blocks, Z) /\ FileOf(Z).soft_depends_on = <<>>)
                  => Contains(Tasks[Z].soft_depends_on, D)

C13_Witness ==
    /\ index # None
    /\ \E D \in DOMAIN Tasks, Z \in DOMAIN Tasks :
          /\ D # Z
          /\ FileOf(D).blocks = <<Z>> /\ FileOf(Z).depends_on = <<>>
          /\ Tasks[Z].depends_on = <<D>>
          /\ FileOf(D).soft_blocks = <<Z>> /\ FileOf(Z).soft_depends_on = <<>>
          /\ Tasks[Z].soft_depends_on = <<D>>

\* C14: inference never changes a declared parent: every node C whose
\* document declares parent P has parent P after inference, also when other
\* nodes list C in their children; a parent that differs from the declared
\* one was assigned to a node that declared none, and is a node that lists
\* C in its children.
C14_DeclaredParentKept ==
    index # None =>
        \A C \in DOMAIN Tasks :
            /\ FileOf(C).parent # None => Tasks[C].parent = FileOf(C).parent
            /\ Tasks[C].parent # FileOf(C).parent =>
                  /\ FileOf(C).parent = None
                  /\ \E A \in DOMAIN Tasks :
                        Tasks[C].parent = Some(A) /\ Contains(FileOf(A).children, C)

C14_Witness ==
    /\ index # None
    /\ \E C \in DOMAIN Tasks, A \in DOMAIN Tasks :
          /\ A # C
          /\ Contains(FileOf(A).children, C)
          /\ FileOf(C).parent # None /\ FileOf(C).parent # Some(A)
          /\ Tasks[C].parent = FileOf(C).parent

\* The relation vectors of two records hold the same ids, and parent and
\* leaf are equal
SameRecord(x, y) ==
    /\ x.parent = y.parent
    /\ x.leaf = y.leaf
    /\ Range(x.children) = Range(y.children)
    /\ Range(x.depends_on) = Range(y.depends_on)
    /\ Range(x.blocks) = Range(y.blocks)
    /\ Range(x.soft_depends_on) = Range(y.soft_depends_on)
    /\ Range(x.soft_blocks) = Range(y.soft_blocks)

\* C15: the records the inference phase produces (parent, leaf, and the
\* relation vectors as sets) are the same for every order in which the nodes
\* are scanned and the update tuples applied.
C15_InferenceOrderIndependent ==
    pc = "built" =>
        \A ord \in Perms(DOMAIN Tasks) :
            \A t \in DOMAIN Tasks :
                SameRecord(Infer(InitialEntries(files), ord)[t], Tasks[t])

\* C16: in the task index every entry of depends_on, soft_depends_on,
\* children, blocks and soft_blocks of every record is the id of a record of
\* the index; a declared reference that names no indexed document is dropped.
C16_NoDanglingRelations ==
    index # None =>
        \A t \in DOMAIN Tasks :
            Range(Tasks[t].depends_on) \cup Range(Tasks[t].soft_depends_on)
              \cup Range(Tasks[t].children) \cup Range(Tasks[t].blocks)
              \cup Range(Tasks[t].soft_blocks) \subseteq DOMAIN Tasks

----------------------------------------------------------------------------
(* Properties of reference resolution *)

\* The inverse relation vector of the index that answers an edge type
InverseOf(e, ty) ==
    CASE ty = "depends_on" -> e.blocks
      [] ty = "parent" -> e.children
      [] ty = "soft_depends_on" -> e.soft_blocks
      [] OTHER -> <<>>

\* C17: a frontmatter reference that names document B by any alias, in any
\* letter case, is a reference to B's id for the edge builder and for the
\* index alike: whenever the edges of a run hold a depends_on (parent,
\* soft_depends_on) edge A -> B with A and B in the index, the index has A in
\* B.blocks (B.children, B.soft_blocks).
C17_EdgesAgreeWithIndex ==
    (pc = "done" /\ index # None) =>
        \A n \in DOMAIN edges :
            (edges[n].edge_type \in {"depends_on", "parent", "soft_depends_on"}
               /\ edges[n].source \in DOMAIN Tasks /\ edges[n].target \in DOMAIN Tasks)
            => Contains(InverseOf(Tasks[edges[n].target], edges[n].edge_type), edges[n].source)

\* The id a reference of document f resolves to in the order of the claim:
\* the exact-case alias, else the lower-cased alias, else the indexed
\* document at the reference joined to the directory of f, else None
ResolveInOrder(ref, f) ==
    IF ref \in DOMAIN id_map THEN Some(path_to_id[id_map[ref]])
    ELSE IF ToLower(ref) \in DOMAIN id_map THEN Some(path_to_id[id_map[ToLower(ref)]])
    ELSE IF Canonicalize(Joined(f, ref)) \in DOMAIN path_to_id
         THEN Some(path_to_id[Canonicalize(Joined(f, ref))])
         ELSE None

\* The references of document f that make an edge of type ty leave f, and
\* those that make one arrive at f
ForwardRefs(f, ty) ==
    CASE ty = "link" -> Range(f.raw_links) \cup f.project
      [] ty = "parent" -> f.parent
      [] ty = "depends_on" -> Range(f.depends_on)
      [] ty = "soft_depends_on" -> Range(f.soft_depends_on)
InverseRefs(f, ty) ==
    CASE ty = "link" -> {}
      [] ty = "parent" -> Range(f.children)
      [] ty = "depends_on" -> Range(f.blocks)
      [] ty = "soft_depends_on" -> Range(f.soft_blocks)

EdgeTypes == {"link", "parent", "depends_on", "soft_depends_on"}

\* The edges the claim's resolution gives for the files of the run (an edge
\* from a document to itself is never made)
EdgesInOrder ==
    UNION {
        {Edge(f.id, Unwrap(ResolveInOrder(r, f)), ty) :
            r \in {x \in ForwardRefs(f, ty) : ResolveInOrder(x, f) \notin {None, Some(f.id)}}}
        \cup
        {Edge(Unwrap(ResolveInOrder(r, f)), f.id, ty) :
            r \in {x \in InverseRefs(f, ty) : ResolveInOrder(x, f) \notin {None, Some(f.id)}}}
        : f \in Range(files), ty \in EdgeTypes}

\* C18: every raw reference, body link or frontmatter relation field alike,
\* resolves to the exact-case alias match, else the lower-cased alias match,
\* else the indexed document at the reference joined to the referring
\* document's directory, else to None, and a None result produces no edge:
\* the edges of a run are exactly those of the references so resolved.
C18_ResolutionOrder ==
    pc \in {"output", "done"} => Range(edges) = EdgesInOrder

----------------------------------------------------------------------------
(* Properties of the order of the steps *)

\* Some closure of the edge builder has resolved the references of its file
ResolutionStarted == \E i \in DOMAIN workers : workers[i] # None

\* C19: no reference is resolved before the aliases of every record of the
\* working set are in the alias index, and the index is not modified after
\* the first resolution read it: from the first closure on, id_map and
\* path_to_id are the complete maps of the files, and the edges collected
\* are those the complete maps give.
C19_AliasIndexBarrier ==
    /\ ResolutionStarted =>
          /\ id_map = BuildIdMap(files)
          /\ path_to_id = BuildPathToId(files)
          /\ \A i \in DOMAIN workers :
                workers[i] # None =>
                    Unwrap(workers[i]) = local_edges(BuildIdMap(files), BuildPathToId(files), files[i])
    /\ pc = "output" => edges = BuildEdgeVec(BuildIdMap(files), BuildPathToId(files), files)

\* A reference of the first file resolves through an alias that only the
\* second file supplies, and some closures are still to run
C19_Witness ==
    /\ pc = "build_edges"
    /\ workers[1] # None /\ Unwrap(workers[1]) # <<>>
    /\ local_edges(InsertAll(<<>>, Range(files[1].permalinks), files[1].path),
                   InsertAll(<<>>, {files[1].path}, files[1].id), files[1]) = <<>>
    /\ \E i \in DOMAIN workers : workers[i] = None

\* C20: within a pass of the inference phase no node is written while the
\* forward relations of any node are still to be read: during each scan the
\* entries are those the pass started with, the update tuples applied
\* afterwards are exactly those collected on that unmodified node set, and
\* the phase ends with the records of the inference.
C20_TwoPhaseInference ==
    frame # None =>
        /\ Frame.phase \in {"collect_children", "collect_sym"} =>
              Frame.entries = Frame.pass_start
        /\ Frame.phase = "apply_children" =>
              Frame.child_updates = ChildUpdates(Frame.pass_start, Frame.task_ids)
        /\ Frame.phase \in {"apply_children", "collect_sym"} =>
              \A t \in DOMAIN Frame.entries :
                  \A k \in {"parent", "depends_on", "soft_depends_on"} :
                      Frame.entries[t][k] = InitialEntries(files)[t][k]
        /\ Frame.phase = "apply_sym" =>
              /\ Frame.parent_updates = parent_updates(Frame.pass_start, Frame.task_ids)
              /\ Frame.dep_updates = dep_updates(Frame.pass_start, Frame.task_ids)
              /\ Frame.block_updates = block_updates(Frame.pass_start, Frame.task_ids)
              /\ Frame.soft_dep_updates = soft_dep_updates(Frame.pass_start, Frame.task_ids)
              /\ Frame.soft_block_updates = soft_block_updates(Frame.pass_start, Frame.task_ids)
        /\ Frame.phase = "end" =>
              Frame.entries = Infer(InitialEntries(files), Frame.task_ids)

\* A scan is under way after it collected an update for a node it has still
\* to read, and that node is not yet written
C20_Witness ==
    /\ frame # None
    /\ Frame.phase = "collect_sym"
    /\ Frame.pos = 1
    /\ \E n \in 2..Len(Frame.task_ids) :
          \E u \in Range(Frame.dep_updates) \cup Range(Frame.parent_updates) :
              u[1] = Frame.task_ids[n]
    /\ Frame.entries = Frame.pass_start

----------------------------------------------------------------------------
(* Properties of the filters *)

\* The ids of the documents that survived the filters
Survivors == {f.id : f \in Range(files)}

\* The relation vectors of a record of the index
RelationFields == {"children", "depends_on", "blocks", "soft_depends_on", "soft_blocks"}

\* C21: with any type/status/priority filter, every endpoint of every edge
\* and every relation entry (and parent) that inference added to a record
\* of the index is the id of a document that survived the filters, the
\* index holds surviving documents only, and a reference to a filtered-out
\* or never-found document does not fail the run.
C21_FiltersPrecedeInference ==
    /\ pc \in {"output", "done"} =>
          \A e \in Range(edges) : e.source \in Survivors /\ e.target \in Survivors
    /\ index # None =>
          /\ DOMAIN Tasks \subseteq Survivors
          /\ \A t \in DOMAIN Tasks :
                /\ \A k \in RelationFields :
                      Range(Tasks[t][k]) \ Range(FileOf(t)[k]) \subseteq Survivors
                /\ Tasks[t].parent # FileOf(t).parent =>
                      Unwrap(Tasks[t].parent) \in Survivors
    /\ exit_code # Some(1)
    /\ pc = "done" => exit_code = Some(0)

\* Under a type filter a.md and b.md survive and c.md does not; inference
\* added b to a.blocks, and the references of b.md to c.md gave neither an
\* edge nor an inverse update
C21_Witness ==
    /\ pc = "done" /\ index # None /\ exit_code = Some(0)
    /\ args.filter_type # None
    /\ Survivors = {"a", "b"} /\ Len(parsed) = 3
    /\ Tasks["a"].blocks = <<"b">> /\ FileOf("a").blocks = <<>>
    /\ Contains(FileOf("b").depends_on, "c") \/ Contains(FileOf("b").blocks, "c")
    /\ edges = <<Edge("b", "a", "depends_on")>>

----------------------------------------------------------------------------
(* Properties of the status *)

\* The spellings a document may declare, and the legacy ones of the table
DeclaredSpellings == {StatusKV[i][2] : i \in DOMAIN StatusKV}
LegacySpellings ==
    {"inbox", "todo", "open", "in-progress", "in_review", "in-review",
     "complete", "completed", "closed"}

\* C22: the alias table is idempotent, the status of every parsed document
\* is the image of a declared spelling under the table, the status of every
\* record of the index is that image (or "active" when none is declared),
\* and no legacy spelling of the table is the status of a record.
C22_StatusNormalized ==
    /\ \A sp \in DeclaredSpellings \cup LegacySpellings :
          resolve_status_alias(resolve_status_alias(sp)) = resolve_status_alias(sp)
    /\ \A f \in Range(files) :
          f.status # None =>
              /\ \E sp \in DeclaredSpellings : f.status = Some(resolve_status_alias(sp))
              /\ Unwrap(f.status) \notin LegacySpellings
    /\ index # None =>
          \A t \in DOMAIN Tasks :
              /\ Tasks[t].status = UnwrapOr(FileOf(t).status, "active")
              /\ Tasks[t].status \notin LegacySpellings

\* Records with statuses that only a legacy spelling gives, classified
C22_Witness ==
    /\ index # None
    /\ \E t \in DOMAIN Tasks : Tasks[t].status = "review"
    /\ \E t \in DOMAIN Tasks : Tasks[t].status = "in_progress"
    /\ \E t \in DOMAIN Tasks : Tasks[t].status = "active" /\ Contains(Ready, t)

----------------------------------------------------------------------------
(* Properties of dependency cycles *)

\* The non-completed nodes of the index
Open(T) == {n \in DOMAIN T : T[n].status \notin {"done", "cancelled"}}

\* m is in the depends_on of n, both non-completed nodes of the index
DependsStep(T, n, m) == n \in Open(T) /\ m \in Open(T) /\ Contains(T[n].depends_on, m)

\* n is on a cycle of depends_on among non-completed nodes (the index has
\* at most three nodes: a cycle has one, two or three of them)
OnCycle(T, n) ==
    \/ DependsStep(T, n, n)
    \/ \E m \in DOMAIN T : DependsStep(T, n, m) /\ DependsStep(T, m, n)
    \/ \E m, k \in DOMAIN T :
          DependsStep(T, n, m) /\ DependsStep(T, m, k) /\ DependsStep(T, k, n)

\* C23: a cycle of depends_on among non-completed nodes, a node that depends
\* on itself included, is not rejected: build_mcp_index returns an index
\* with an entry for every node and no failure is reported, every node on
\* the cycle is in blocked and none of them is in ready.
C23_CyclesTolerated ==
    /\ pc = "build_index" =>
          \E ord \in Perms(DOMAIN InitialEntries(files)) :
              DOMAIN build_mcp_index(files, ord).tasks = DOMAIN InitialEntries(files)
    /\ pc # "build_index" => index # None
    /\ exit_code # Some(1)
    /\ index # None =>
          \A n \in DOMAIN Tasks :
              OnCycle(Tasks, n) =>
                  /\ Contains(Unwrap(index).blocked, n)
                  /\ ~Contains(Ready, n)

\* a.md and b.md declare each other as a dependency: both are blocked and
\* c.md is ready
C23_Witness ==
    /\ index # None
    /\ Contains(FileOf("a").depends_on, "b") /\ Contains(FileOf("b").depends_on, "a")
    /\ OnCycle(Tasks, "a") /\ OnCycle(Tasks, "b")
    /\ Range(Unwrap(index).blocked) = {"a", "b"}
    /\ Ready = <<"c">>

----------------------------------------------------------------------------
(* Properties of the edges of the graph *)

\* The graph has been written: the run took the path of lines 1092-1179
Materialized == pc = "done" /\ ToLower(args.format) # "mcp-index"

\* Document f names the document with id t in its relation field k
Declares(f, k, t) == \E r \in Range(f[k]) : ToLower(r) = t

\* Document f names the document with id t as its parent
DeclaresParent(f, t) == f.parent # None /\ ToLower(Unwrap(f.parent)) = t

\* The edges of type ty of the graph
EdgesOfType(ty) == {e \in Range(edges) : e.edge_type = ty}

\* The edges x -> y, over pairs of distinct documents, for which fwd(x, y)
\* or inv(y, x) is declared
Normalized(ty, fwd, inv) ==
    {Edge(x.id, y.id, ty) :
        <<x, y>> \in {q \in Range(files) \X Range(files) :
                        /\ q[1].id # q[2].id
                        /\ \/ Declares(q[1], fwd, q[2].id)
                           \/ Declares(q[2], inv, q[1].id)}}

\* The parent edges child -> parent declared from either side
NormalizedParent ==
    {Edge(x.id, y.id, "parent") :
        <<x, y>> \in {q \in Range(files) \X Range(files) :
                        /\ q[1].id # q[2].id
                        /\ \/ DeclaresParent(q[1], q[2].id)
                           \/ Declares(q[2], "children", q[1].id)}}

\* C24: in the graph that is written no edge has source equal to target,
\* no two edges have the same (source, target, type), every edge type is
\* one of parent, depends_on, soft_depends_on, link, and the edges of the
\* three relation types are exactly the forward edges of the relations
\* declared from either side: children [C] on P is the parent edge C -> P,
\* blocks [Z] on D the depends_on edge Z -> D, soft_blocks likewise, once
\* each.
C24_EdgeSetInvariants ==
    Materialized =>
        /\ \A e \in Range(edges) : e.source # e.target
        /\ \A i, j \in DOMAIN edges : i # j => edges[i] # edges[j]
        /\ \A e \in Range(edges) : e.edge_type \in EdgeTypes
        /\ EdgesOfType("parent") = NormalizedParent
        /\ EdgesOfType("depends_on") = Normalized("depends_on", "depends_on", "blocks")
        /\ EdgesOfType("soft_depends_on")
              = Normalized("soft_depends_on", "soft_depends_on", "soft_blocks")

\* a.md declares parent b and b.md declares children [a]: the graph has the
\* one edge a -> b of type parent
C24_Witness ==
    /\ Materialized
    /\ DeclaresParent(FileOf("a"), "b")
    /\ Declares(FileOf("b"), "children", "a")
    /\ Len(BuildEdgeVec(id_map, path_to_id, files)) = 2
    /\ edges = <<Edge("a", "b", "parent")>>

====
